---- MODULE Spec2Model ----
(***************************************************************************)
(* Wellness Lab (src/app.py): the SQLite record store (daily check-ins,    *)
(* meal logs, goals) and the pure computation core (macros_for_dish,       *)
(* wellness_index_generic).                                                *)
(*                                                                         *)
(* Conventions.  A Python None / SQL NULL is the empty tuple <<>> and a    *)
(* present value v is <<v>>.  REAL values are held as integers in tenths   *)
(* (48.0 kg is 480).  A calendar date is its day ordinal; ISO date strings *)
(* produced by date.isoformat() compare like their ordinals.  A meal time  *)
(* "HH:MM" is its minute of the day, which compares like the text.         *)
(***************************************************************************)
EXTENDS Integers, Sequences, FiniteSets, TLC

VARIABLES
    today,            \* date.today(), as a day ordinal
    logs,             \* table logs: set of rows
    daily,            \* table daily: set of rows
    goals,            \* table goals: set of rows
    sqlite_sequence,  \* AUTOINCREMENT counters of logs and daily
    last_upsert,      \* history: (person, log_date) -> kwargs of the latest upsert_daily
    last_goal,        \* history: (person, goal_type) -> arguments of the latest set_goal
    last_call,        \* the call that produced this state
    args,             \* arguments of the calls of the computation core
    ret,              \* what the last call returned or raised (per call, for two calls)
    frame             \* locals of macros_for_dish after its loop, per call

vars == <<today, logs, daily, goals, sqlite_sequence, last_upsert, last_goal,
          last_call, args, ret, frame>>

store_vars == <<today, logs, daily, goals, sqlite_sequence, last_upsert, last_goal>>

-----------------------------------------------------------------------------
(* Bounds and sample inputs                                                *)

MaxRows == 2        \* rows the three tables may hold together

DaysBack == 75      \* an older log date, DaysBack days before today

Null == <<>>

Some(v) == <<v>>

\* two of the three profiles of the app
Persons == {"Sushil", "Chido"}

GoalTypes == {"gain", "loss"}

Dates == {today - DaysBack, today}

\* keyword arguments of upsert_daily: every column supplied; two columns and
\* a keyword that is no column, one of them an explicit None.
KwargsSamples ==
    [ full    |-> [ weight_kg |-> Some(480), sleep_hours |-> Some(70),
                    exercise_min |-> Some(300), mood |-> Some(6), stress |-> Some(4),
                    gerd_symptom |-> Some(3), glucose_mgdl |-> Some(1200),
                    period_day |-> Some(2), period_flow |-> Some("Light"),
                    period_symptoms |-> Some("cramps"), insulin_units |-> Some(105),
                    extra_notes |-> Some("ok") ],
      partial |-> [ weight_kg |-> Some(551), stress |-> Null, wellness |-> Some(3) ] ]

GoalSamples ==
    [ a |-> [ start_weight |-> 480, target_weight |-> 540, target_in |-> 30,
              kcal_adjust |-> 3000, protein_target |-> 1100 ],
      b |-> [ start_weight |-> 700, target_weight |-> 650, target_in |-> 45,
              kcal_adjust |-> 0 - 3000, protein_target |-> 900 ] ]

MealSamples ==
    [ omelette |-> [ meal_type |-> "Breakfast", meal_time |-> 480, dish |-> "omelette",
                     grams |-> 1250,
                     macros |-> [ carbs_g |-> 13, protein_g |-> 151, fat_g |-> 170,
                                  kcal |-> 2170, gerd |-> 56 ],
                     notes |-> "" ],
      fries    |-> [ meal_type |-> "Snacks", meal_time |-> 1230, dish |-> "fries",
                     grams |-> 6000,
                     macros |-> [ carbs_g |-> 2460, protein_g |-> 204, fat_g |-> 900,
                                  kcal |-> 18720, gerd |-> 1000 ],
                     notes |-> "late" ] ]

-----------------------------------------------------------------------------
(* The record store                                                        *)

LOGS_DAYS == 60

DAILY_DAYS == 90

\* the list `cols` of upsert_daily
cols == { "weight_kg", "sleep_hours", "exercise_min", "mood", "stress", "gerd_symptom",
          "glucose_mgdl", "period_day", "period_flow", "period_symptoms",
          "insulin_units", "extra_notes" }

\* data = {c: kwargs.get(c, None) for c in cols}
data_of(kwargs) == [ c \in cols |-> IF c \in DOMAIN kwargs THEN kwargs[c] ELSE Null ]

RowCount == Cardinality(logs) + Cardinality(daily) + Cardinality(goals)

\* the record of a call: its name, its person and key argument (a log date or a goal
\* type), the branch an upsert took, and the columns of the row that held a value
\* before the call and hold NULL after it
Call(op, person, key, branch, nulled) ==
    [ op |-> op, person |-> person, key |-> key, branch |-> branch, nulled |-> nulled ]

Nulled(person, log_date, after) ==
    { c \in cols : /\ \E r \in daily : /\ r.person = person /\ r.log_date = log_date
                                       /\ r.data[c] # Null
                   /\ \E r \in after : /\ r.person = person /\ r.log_date = log_date
                                       /\ r.data[c] = Null }

\* the history entry of a save under `key`: what was saved, and whether the key had
\* been saved before
Saved(hist, person, keyname, key, valname, val) ==
    { h \in hist : ~(h.person = person /\ h[keyname] = key) } \cup
    { [ k \in { "person", keyname, valname, "resaved" } |->
          CASE k = "person" -> person
            [] k = keyname -> key
            [] k = valname -> val
            [] OTHER -> \E h \in hist : h.person = person /\ h[keyname] = key ] }

\* SELECT id FROM daily WHERE person=? AND log_date=?
daily_select(person, log_date) ==
    { r \in daily : r.person = person /\ r.log_date = log_date }

\* INSERT INTO daily: the next AUTOINCREMENT id; UNIQUE(person, log_date) rejects a
\* second row of the pair with sqlite3.IntegrityError and leaves the table alone.
daily_insert(person, log_date, data) ==
    IF daily_select(person, log_date) # {}
    THEN /\ ret' = [ exc |-> "IntegrityError" ]
         /\ UNCHANGED <<daily, sqlite_sequence>>
    ELSE /\ daily' = daily \cup { [ id |-> sqlite_sequence.daily + 1, person |-> person,
                                    log_date |-> log_date, data |-> data ] }
         /\ sqlite_sequence' = [ sqlite_sequence EXCEPT !.daily = @ + 1 ]
         /\ ret' = Null

\* UPDATE daily SET <every column of cols> WHERE person=? AND log_date=?
daily_update(person, log_date, data) ==
    /\ daily' = { IF r.person = person /\ r.log_date = log_date
                  THEN [ r EXCEPT !.data = data ] ELSE r : r \in daily }
    /\ UNCHANGED sqlite_sequence
    /\ ret' = Null

\* a faulty upsert: no existence check, on a table without the UNIQUE constraint
upsert_daily_always_insert(person, log_date, kwargs) ==
    /\ RowCount < MaxRows
    /\ daily' = daily \cup { [ id |-> sqlite_sequence.daily + 1, person |-> person,
                               log_date |-> log_date, data |-> data_of(kwargs) ] }
    /\ sqlite_sequence' = [ sqlite_sequence EXCEPT !.daily = @ + 1 ]
    /\ ret' = Null
    /\ last_upsert' = Saved(last_upsert, person, "log_date", log_date, "kwargs", kwargs)
    /\ last_call' = Call("upsert_daily", person, log_date,
                         IF daily_select(person, log_date) # {} THEN "UPDATE" ELSE "INSERT",
                         Nulled(person, log_date, daily'))
    /\ UNCHANGED <<today, logs, goals, last_goal, args, frame>>

\* a faulty upsert: the UPDATE writes only the columns the call gave a value for
upsert_daily_keep_old(person, log_date, kwargs) ==
    /\ daily_select(person, log_date) # {} \/ RowCount < MaxRows
    /\ IF daily_select(person, log_date) # {}
       THEN /\ daily' = { IF r.person = person /\ r.log_date = log_date
                          THEN [ r EXCEPT !.data =
                                   [ c \in cols |-> IF data_of(kwargs)[c] # Null
                                                    THEN data_of(kwargs)[c] ELSE r.data[c] ] ]
                          ELSE r : r \in daily }
            /\ UNCHANGED sqlite_sequence
            /\ ret' = Null
       ELSE daily_insert(person, log_date, data_of(kwargs))
    /\ last_upsert' = Saved(last_upsert, person, "log_date", log_date, "kwargs", kwargs)
    /\ last_call' = Call("upsert_daily", person, log_date,
                         IF daily_select(person, log_date) # {} THEN "UPDATE" ELSE "INSERT",
                         Nulled(person, log_date, daily'))
    /\ UNCHANGED <<today, logs, goals, last_goal, args, frame>>

upsert_daily(person, log_date, kwargs) ==
    /\ daily_select(person, log_date) # {} \/ RowCount < MaxRows
    /\ IF daily_select(person, log_date) # {}
       THEN daily_update(person, log_date, data_of(kwargs))
       ELSE daily_insert(person, log_date, data_of(kwargs))
    /\ last_upsert' = Saved(last_upsert, person, "log_date", log_date, "kwargs", kwargs)
    /\ last_call' = Call("upsert_daily", person, log_date,
                         IF daily_select(person, log_date) # {} THEN "UPDATE" ELSE "INSERT",
                         Nulled(person, log_date, daily'))
    /\ UNCHANGED <<today, logs, goals, last_goal, args, frame>>

\* a faulty insert: the row replaces the person's earlier meal of that date
add_meal_log_replace(person, log_date, meal) ==
    /\ RowCount < MaxRows
    /\ logs' = { r \in logs : ~(r.person = person /\ r.log_date = log_date) } \cup
               { [ id |-> sqlite_sequence.logs + 1, person |-> person, log_date |-> log_date,
                   meal_type |-> meal.meal_type, meal_time |-> meal.meal_time,
                   dish |-> meal.dish, grams |-> meal.grams,
                   carbs_g |-> meal.macros.carbs_g, protein_g |-> meal.macros.protein_g,
                   fat_g |-> meal.macros.fat_g, kcal |-> meal.macros.kcal,
                   gerd |-> meal.macros.gerd, notes |-> meal.notes ] }
    /\ sqlite_sequence' = [ sqlite_sequence EXCEPT !.logs = @ + 1 ]
    /\ ret' = Null
    /\ last_call' = Call("add_meal_log", person, log_date, "", {})
    /\ UNCHANGED <<today, daily, goals, last_upsert, last_goal, args, frame>>

\* INSERT INTO logs(...): one new row under the next AUTOINCREMENT id; float() keeps
\* the value of grams and of each macro
add_meal_log(person, log_date, meal) ==
    /\ RowCount < MaxRows
    /\ logs' = logs \cup
               { [ id |-> sqlite_sequence.logs + 1, person |-> person, log_date |-> log_date,
                   meal_type |-> meal.meal_type, meal_time |-> meal.meal_time,
                   dish |-> meal.dish, grams |-> meal.grams,
                   carbs_g |-> meal.macros.carbs_g, protein_g |-> meal.macros.protein_g,
                   fat_g |-> meal.macros.fat_g, kcal |-> meal.macros.kcal,
                   gerd |-> meal.macros.gerd, notes |-> meal.notes ] }
    /\ sqlite_sequence' = [ sqlite_sequence EXCEPT !.logs = @ + 1 ]
    /\ ret' = Null
    /\ last_call' = Call("add_meal_log", person, log_date, "", {})
    /\ UNCHANGED <<today, daily, goals, last_upsert, last_goal, args, frame>>

\* ORDER BY log_date DESC, meal_time DESC
logs_order(a, b) ==
    \/ a.log_date > b.log_date
    \/ a.log_date = b.log_date /\ a.meal_time > b.meal_time

\* ORDER BY log_date ASC
daily_order(a, b) == a.log_date < b.log_date

\* the orders in which the query on `table` may deliver the rows S: sorted by its
\* ORDER BY, rows the ORDER BY ties in any order
Frames(S, table) ==
    { s \in [ 1..Cardinality(S) -> S ] :
        /\ \A i, j \in 1..Cardinality(S) : i # j => s[i] # s[j]
        /\ \A i, j \in 1..Cardinality(S) :
             i < j => ~(IF table = "logs" THEN logs_order(s[j], s[i])
                                          ELSE daily_order(s[j], s[i])) }

\* a faulty query: the WHERE clause has lost person=?
load_logs_df_any_person(person) ==
    Frames({ r \in logs : r.log_date >= today - LOGS_DAYS }, "logs")

\* SELECT * FROM logs WHERE person=? AND log_date>=? ORDER BY log_date DESC, meal_time DESC
load_logs_df(person) ==
    Frames({ r \in logs : r.person = person /\ r.log_date >= today - LOGS_DAYS }, "logs")

\* SELECT * FROM daily WHERE person=? AND log_date>=? ORDER BY log_date ASC
load_daily_df(person) ==
    Frames({ r \in daily : r.person = person /\ r.log_date >= today - DAILY_DAYS },
           "daily")

load_logs(person) ==
    /\ ret' \in load_logs_df(person)
    /\ last_call' = Call("load_logs", person, "", "", {})
    /\ UNCHANGED <<store_vars, args, frame>>

load_daily(person) ==
    /\ ret' \in load_daily_df(person)
    /\ last_call' = Call("load_daily", person, "", "", {})
    /\ UNCHANGED <<store_vars, args, frame>>

\* the arguments of a set_goal call, the target date as the date it names
GoalArgs(s) ==
    [ start_weight |-> s.start_weight, target_weight |-> s.target_weight,
      target_date |-> today + s.target_in, kcal_adjust |-> s.kcal_adjust,
      protein_target |-> s.protein_target ]

\* the row set_goal writes: start_date is date.today(); float() keeps each value
goal_row(person, goal_type, g) ==
    [ person |-> person, goal_type |-> goal_type, start_date |-> today,
      start_weight |-> g.start_weight, target_weight |-> g.target_weight,
      target_date |-> g.target_date, kcal_adjust |-> g.kcal_adjust,
      protein_target |-> g.protein_target ]

\* a faulty upsert: the conflicting row is kept (INSERT OR IGNORE)
set_goal_ignore(person, goal_type, g) ==
    /\ (\E r \in goals : r.person = person /\ r.goal_type = goal_type) \/ RowCount < MaxRows
    /\ goals' = IF \E r \in goals : r.person = person /\ r.goal_type = goal_type
                THEN goals
                ELSE goals \cup { goal_row(person, goal_type, g) }
    /\ last_goal' = Saved(last_goal, person, "goal_type", goal_type, "goal", g)
    /\ ret' = Null
    /\ last_call' = Call("set_goal", person, goal_type, "", {})
    /\ UNCHANGED <<today, logs, daily, sqlite_sequence, last_upsert, args, frame>>

\* INSERT INTO goals ... ON CONFLICT(person, goal_type) DO UPDATE SET <the six columns>
set_goal(person, goal_type, g) ==
    /\ (\E r \in goals : r.person = person /\ r.goal_type = goal_type) \/ RowCount < MaxRows
    /\ goals' = { r \in goals : ~(r.person = person /\ r.goal_type = goal_type) }
                  \cup { goal_row(person, goal_type, g) }
    /\ last_goal' = Saved(last_goal, person, "goal_type", goal_type, "goal", g)
    /\ ret' = Null
    /\ last_call' = Call("set_goal", person, goal_type, "", {})
    /\ UNCHANGED <<today, logs, daily, sqlite_sequence, last_upsert, args, frame>>

\* the dict get_goal builds from the fetched row, or None
goal_dict(person, goal_type) ==
    LET rows == { r \in goals : r.person = person /\ r.goal_type = goal_type }
    IN  IF rows = {} THEN { Null }
        ELSE { Some([ start_date |-> r.start_date, start_weight |-> r.start_weight,
                      target_weight |-> r.target_weight, target_date |-> r.target_date,
                      kcal_adjust |-> r.kcal_adjust,
                      protein_target |-> r.protein_target ]) : r \in rows }

get_goal(person, goal_type) ==
    /\ ret' \in goal_dict(person, goal_type)
    /\ last_call' = Call("get_goal", person, goal_type, "", {})
    /\ UNCHANGED <<store_vars, args, frame>>

-----------------------------------------------------------------------------
(* The store, one call after another                                       *)

\* the tables init_db creates, empty
StoreEmpty ==
    /\ today = DAILY_DAYS + DaysBack
    /\ logs = {}
    /\ daily = {}
    /\ goals = {}
    /\ sqlite_sequence = [ logs |-> 0, daily |-> 0 ]
    /\ last_upsert = {}
    /\ last_goal = {}
    /\ last_call = Call("init_db", "", "", "", {})

Init ==
    /\ StoreEmpty
    /\ args = Null
    /\ ret = Null
    /\ frame = Null

Next ==
    \/ \E p \in Persons, d \in Dates, k \in DOMAIN KwargsSamples :
         upsert_daily(p, d, KwargsSamples[k])
    \/ \E p \in Persons, d \in Dates, m \in DOMAIN MealSamples :
         add_meal_log(p, d, MealSamples[m])
    \/ \E p \in Persons, t \in GoalTypes, g \in DOMAIN GoalSamples :
         set_goal(p, t, GoalArgs(GoalSamples[g]))
    \/ \E p \in Persons : load_logs(p)
    \/ \E p \in Persons : load_daily(p)
    \/ \E p \in Persons, t \in GoalTypes : get_goal(p, t)

Spec == Init /\ [][Next]_vars

-----------------------------------------------------------------------------
(* Two upsert_daily calls at once                                          *)
(*                                                                         *)
(* Each call opens its own connection (db()), so two sessions can run      *)
(* upsert_daily for the same (person, date) with their statements          *)
(* interleaved.  The SELECT reads the committed table.  An INSERT or       *)
(* UPDATE takes the write lock of the database and holds it until          *)
(* conn.commit(); the other connection's write waits for the lock and its  *)
(* SELECT does not see the uncommitted row, so for the other call the      *)
(* write and its commit are one step.  frame[c] holds the position of call *)
(* c, its local `row` and the exception that left it.                      *)

Calls == 1..2

RaceData(c) == data_of(KwargsSamples[args.kwargs[c]])

InitRace ==
    /\ StoreEmpty
    /\ args \in [ person : Persons, log_date : Dates,
                  kwargs : [ Calls -> DOMAIN KwargsSamples ] ]
    /\ ret = Null
    /\ frame = [ c \in Calls |-> [ pc |-> "SELECT", row |-> FALSE, exc |-> "" ] ]

\* an upsert_daily for the pair that ended before the two calls began
EarlierUpsert ==
    /\ \A c \in Calls : frame[c].pc = "SELECT"
    /\ daily = {}
    /\ \E k \in DOMAIN KwargsSamples :
         upsert_daily(args.person, args.log_date, KwargsSamples[k])

\* row = conn.execute("SELECT id FROM daily WHERE person=? AND log_date=?").fetchone()
RaceSelect(c) ==
    /\ frame[c].pc = "SELECT"
    /\ frame' = [ frame EXCEPT ![c].pc = "WRITE",
                               ![c].row = daily_select(args.person, args.log_date) # {} ]
    /\ UNCHANGED <<store_vars, last_call, args, ret>>

\* if row: UPDATE ... else: INSERT ...; conn.commit(); conn.close().  The INSERT of a
\* call whose SELECT found no row raises sqlite3.IntegrityError when the pair has a
\* row by now; the exception leaves upsert_daily and nothing is written.
RaceWrite(c) ==
    /\ frame[c].pc = "WRITE"
    /\ IF frame[c].row
       THEN daily_update(args.person, args.log_date, RaceData(c))
       ELSE daily_insert(args.person, args.log_date, RaceData(c))
    /\ LET failed == ~frame[c].row /\ daily_select(args.person, args.log_date) # {}
       IN  /\ frame' = [ frame EXCEPT ![c].pc = "DONE",
                                      ![c].exc = IF failed THEN "IntegrityError" ELSE "" ]
           /\ last_upsert' = IF failed THEN last_upsert
                             ELSE Saved(last_upsert, args.person, "log_date",
                                        args.log_date, "kwargs",
                                        KwargsSamples[args.kwargs[c]])
    /\ last_call' = Call("upsert_daily", args.person, args.log_date,
                         IF frame[c].row THEN "UPDATE" ELSE "INSERT",
                         Nulled(args.person, args.log_date, daily'))
    /\ UNCHANGED <<today, logs, goals, last_goal, args>>

NextRace ==
    \/ EarlierUpsert
    \/ \E c \in Calls : RaceSelect(c)
    \/ \E c \in Calls : RaceWrite(c)

SpecRace == InitRace /\ [][NextRace]_vars

-----------------------------------------------------------------------------
(* The computation core                                                    *)
(*                                                                         *)
(* Python floats are modelled by exact rationals [num, den] with den > 0.  *)
(* A call either returns a value or raises an exception.                   *)

MaxDoublings == 7   \* serving weights 10 g, 20 g, ... , 10 * 2^MaxDoublings g

Return(v) == [ exc |-> "", value |-> v ]

Raise(e) == [ exc |-> e, value |-> Null ]

NotCalled == [ exc |-> "not called", value |-> Null ]

Rat(n, d) == [ num |-> n, den |-> d ]

Less(x, y) == x.num * y.den < y.num * x.den

\* round(x, 0) of Python 3 for x = n / d, d > 0: to the nearest integer, a tie to the
\* even one
round_half_even(n, d) ==
    LET q == n \div d
        r == n % d
    IN  IF 2 * r < d THEN q
        ELSE IF 2 * r > d THEN q + 1
        ELSE IF q % 2 = 0 THEN q ELSE q + 1

\* the names the module app.py binds by import
app_imports == { "os", "sqlite3", "datetime", "date", "timedelta", "px", "go", "pd", "st" }

\* numpy.clip(x, lo, hi) for lo <= hi
clip(x, lo, hi) == IF Less(x, lo) THEN lo ELSE IF Less(hi, x) THEN hi ELSE x

\* the expression np.clip(x, lo, hi) evaluated in app.py: the global name np is
\* looked up first, and NameError is raised when the module does not bind it
np_clip(x, lo, hi) ==
    IF "np" \in app_imports THEN Return(clip(x, lo, hi)) ELSE Raise("NameError")

\* ING_DB: per 100 g, protein, carbs and fat in tenths of a gram, kcal, and the
\* reflux coefficient `gerd` in hundredths
ING_DB ==
    [ egg_whole |-> [ protein |-> 126, carbs |-> 11, fat |-> 100, kcal |-> 143, gerd |-> 5 ],
      egg_white |-> [ protein |-> 110, carbs |-> 7, fat |-> 2, kcal |-> 52, gerd |-> 2 ],
      milk_2pct |-> [ protein |-> 34, carbs |-> 48, fat |-> 20, kcal |-> 50, gerd |-> 5 ],
      curd_plain |-> [ protein |-> 40, carbs |-> 40, fat |-> 30, kcal |-> 60, gerd |-> (0 - 3) ],
      yogurt_plain |-> [ protein |-> 100, carbs |-> 60, fat |-> 30, kcal |-> 100,
          gerd |-> (0 - 5) ],
      buttermilk |-> [ protein |-> 30, carbs |-> 50, fat |-> 10, kcal |-> 35, gerd |-> (0 - 2) ],
      whey_powder |-> [ protein |-> 800, carbs |-> 80, fat |-> 60, kcal |-> 400, gerd |-> 5 ],
      rice_cooked |-> [ protein |-> 27, carbs |-> 280, fat |-> 3, kcal |-> 130, gerd |-> 0 ],
      brown_rice_cooked |-> [ protein |-> 26, carbs |-> 230, fat |-> 10, kcal |-> 110, gerd |-> 0 ],
      poha_cooked |-> [ protein |-> 20, carbs |-> 200, fat |-> 30, kcal |-> 115, gerd |-> 5 ],
      upma_cooked |-> [ protein |-> 30, carbs |-> 180, fat |-> 40, kcal |-> 120, gerd |-> 5 ],
      oats_cooked |-> [ protein |-> 24, carbs |-> 120, fat |-> 14, kcal |-> 71, gerd |-> (0 - 5) ],
      roti |-> [ protein |-> 80, carbs |-> 450, fat |-> 30, kcal |-> 250, gerd |-> 5 ],
      phulka |-> [ protein |-> 80, carbs |-> 470, fat |-> 25, kcal |-> 240, gerd |-> 5 ],
      paratha |-> [ protein |-> 70, carbs |-> 400, fat |-> 120, kcal |-> 300, gerd |-> 15 ],
      thepla |-> [ protein |-> 80, carbs |-> 400, fat |-> 80, kcal |-> 260, gerd |-> 12 ],
      bread |-> [ protein |-> 90, carbs |-> 490, fat |-> 32, kcal |-> 265, gerd |-> 10 ],
      dal_cooked |-> [ protein |-> 90, carbs |-> 200, fat |-> 5, kcal |-> 120, gerd |-> 5 ],
      rajma_cooked |-> [ protein |-> 85, carbs |-> 220, fat |-> 7, kcal |-> 127, gerd |-> 8 ],
      chole_cooked |-> [ protein |-> 90, carbs |-> 270, fat |-> 25, kcal |-> 164, gerd |-> 12 ],
      moong_sprouts |-> [ protein |-> 30, carbs |-> 60, fat |-> 2, kcal |-> 35, gerd |-> 2 ],
      chicken_cooked |-> [ protein |-> 270, carbs |-> 0, fat |-> 40, kcal |-> 165, gerd |-> 5 ],
      fish_cooked |-> [ protein |-> 220, carbs |-> 0, fat |-> 50, kcal |-> 130, gerd |-> 5 ],
      paneer |-> [ protein |-> 180, carbs |-> 20, fat |-> 200, kcal |-> 265, gerd |-> 10 ],
      tofu |-> [ protein |-> 80, carbs |-> 20, fat |-> 50, kcal |-> 80, gerd |-> 3 ],
      oil |-> [ protein |-> 0, carbs |-> 0, fat |-> 1000, kcal |-> 900, gerd |-> 20 ],
      ghee |-> [ protein |-> 0, carbs |-> 0, fat |-> 1000, kcal |-> 900, gerd |-> 22 ],
      veg_curry |-> [ protein |-> 20, carbs |-> 80, fat |-> 40, kcal |-> 80, gerd |-> 10 ],
      bhaji |-> [ protein |-> 25, carbs |-> 100, fat |-> 60, kcal |-> 105, gerd |-> 12 ],
      sambar |-> [ protein |-> 40, carbs |-> 100, fat |-> 20, kcal |-> 70, gerd |-> 8 ],
      banana |-> [ protein |-> 11, carbs |-> 230, fat |-> 3, kcal |-> 89, gerd |-> (0 - 3) ],
      fruit_mixed |-> [ protein |-> 8, carbs |-> 140, fat |-> 2, kcal |-> 60, gerd |-> (0 - 4) ],
      nuts_mixed |-> [ protein |-> 180, carbs |-> 160, fat |-> 500, kcal |-> 600, gerd |-> 10 ],
      dhokla |-> [ protein |-> 70, carbs |-> 250, fat |-> 40, kcal |-> 160, gerd |-> 10 ],
      khandvi |-> [ protein |-> 80, carbs |-> 180, fat |-> 60, kcal |-> 160, gerd |-> 10 ],
      fafda |-> [ protein |-> 70, carbs |-> 400, fat |-> 180, kcal |-> 340, gerd |-> 25 ],
      handvo |-> [ protein |-> 80, carbs |-> 220, fat |-> 90, kcal |-> 210, gerd |-> 18 ],
      khakhra |-> [ protein |-> 100, carbs |-> 650, fat |-> 80, kcal |-> 360, gerd |-> 10 ],
      undhiyu |-> [ protein |-> 30, carbs |-> 120, fat |-> 70, kcal |-> 120, gerd |-> 12 ],
      sev |-> [ protein |-> 120, carbs |-> 500, fat |-> 250, kcal |-> 470, gerd |-> 25 ],
      idli |-> [ protein |-> 40, carbs |-> 200, fat |-> 10, kcal |-> 100, gerd |-> 5 ],
      dosa |-> [ protein |-> 50, carbs |-> 250, fat |-> 60, kcal |-> 170, gerd |-> 10 ],
      pav_bhaji |-> [ protein |-> 60, carbs |-> 250, fat |-> 80, kcal |-> 190, gerd |-> 25 ],
      vada_pav |-> [ protein |-> 60, carbs |-> 300, fat |-> 120, kcal |-> 250, gerd |-> 30 ],
      samosa |-> [ protein |-> 50, carbs |-> 300, fat |-> 120, kcal |-> 260, gerd |-> 30 ],
      pizza |-> [ protein |-> 110, carbs |-> 330, fat |-> 100, kcal |-> 285, gerd |-> 30 ],
      burger |-> [ protein |-> 130, carbs |-> 240, fat |-> 130, kcal |-> 250, gerd |-> 30 ],
      fries |-> [ protein |-> 34, carbs |-> 410, fat |-> 150, kcal |-> 312, gerd |-> 35 ],
      black_coffee |-> [ protein |-> 1, carbs |-> 0, fat |-> 0, kcal |-> 2, gerd |-> 20 ],
      tea |-> [ protein |-> 5, carbs |-> 20, fat |-> 5, kcal |-> 15, gerd |-> 10 ] ]

\* a faulty recipe table: a recipe names an ingredient ING_DB does not have, and
\* another has reference weights that sum to zero
DISH_RECIPES_dangling ==
    [ omelette |-> << <<"egg_whole", 120>>, <<"saffron", 5>> >>,
      boiled_eggs_2 |-> << <<"egg_whole", 100>> >>,
      water |-> << <<"water", 0>> >> ]

\* DISH_RECIPES: dish -> sequence of <<ingredient, reference grams>>
DISH_RECIPES ==
    [ omelette |-> << <<"egg_whole", 120>>, <<"oil", 5>> >>,
      boiled_eggs_2 |-> << <<"egg_whole", 100>> >>,
      oats_bowl |-> << <<"oats_cooked", 300>>, <<"milk_2pct", 200>>, <<"banana", 120>> >>,
      poha |-> << <<"poha_cooked", 300>>, <<"oil", 5>> >>,
      upma |-> << <<"upma_cooked", 300>>, <<"oil", 5>> >>,
      idli_sambar |-> << <<"idli", 200>>, <<"sambar", 250>> >>,
      dosa_sambar |-> << <<"dosa", 180>>, <<"sambar", 250>> >>,
      dal_rice |-> << <<"dal_cooked", 250>>, <<"rice_cooked", 250>>, <<"oil", 5>> >>,
      rajma_rice |-> << <<"rajma_cooked", 250>>, <<"rice_cooked", 250>>, <<"oil", 5>> >>,
      chole_rice |-> << <<"chole_cooked", 250>>, <<"rice_cooked", 250>>, <<"oil", 5>> >>,
      roti_veg_curry |-> << <<"roti", 160>>, <<"veg_curry", 250>> >>,
      roti_dal |-> << <<"roti", 160>>, <<"dal_cooked", 250>> >>,
      paratha_curd |-> << <<"paratha", 180>>, <<"curd_plain", 200>> >>,
      thepla_curd |-> << <<"thepla", 160>>, <<"curd_plain", 200>> >>,
      egg_curry |-> << <<"egg_whole", 120>>, <<"veg_curry", 200>>, <<"oil", 10>> >>,
      chicken_curry_rice |-> << <<"chicken_cooked", 150>>, <<"veg_curry", 200>>, <<"rice_cooked",
          250>>, <<"oil", 10>> >>,
      biryani_chicken |-> << <<"rice_cooked", 300>>, <<"chicken_cooked", 150>>, <<"oil", 12>> >>,
      paneer_curry_roti |-> << <<"paneer", 150>>, <<"veg_curry", 200>>, <<"roti", 160>> >>,
      tofu_curry_roti |-> << <<"tofu", 180>>, <<"veg_curry", 200>>, <<"roti", 160>> >>,
      dhokla_plate |-> << <<"dhokla", 200>> >>,
      khandvi_plate |-> << <<"khandvi", 200>> >>,
      handvo_slice |-> << <<"handvo", 180>> >>,
      fafda |-> << <<"fafda", 120>> >>,
      khakhra_snack |-> << <<"khakhra", 60>> >>,
      undhiyu_roti |-> << <<"undhiyu", 300>>, <<"roti", 160>> >>,
      sev_snack |-> << <<"sev", 40>> >>,
      pav_bhaji |-> << <<"pav_bhaji", 350>> >>,
      vada_pav |-> << <<"vada_pav", 200>> >>,
      samosa |-> << <<"samosa", 150>> >>,
      protein_shake |-> << <<"whey_powder", 30>>, <<"milk_2pct", 250>> >>,
      banana_milk_shake |-> << <<"milk_2pct", 350>>, <<"banana", 180>> >>,
      curd_bowl |-> << <<"curd_plain", 300>>, <<"banana", 120>>, <<"nuts_mixed", 25>> >>,
      pizza |-> << <<"pizza", 250>> >>,
      burger |-> << <<"burger", 220>> >>,
      fries |-> << <<"fries", 180>> >> ]

\* a faulty menu: Snacks offers a dish that DISH_RECIPES does not have
DISH_CATEGORIES_stale ==
    [ Breakfast |-> << "omelette", "boiled_eggs_2" >>,
      Lunch |-> << "dal_rice", "egg_curry" >>,
      Dinner |-> << "dal_rice", "roti_dal" >>,
      Snacks |-> << "fries", "masala_chai" >> ]

\* DISH_CATEGORIES: meal category -> the dishes offered for it
DISH_CATEGORIES ==
    [ Breakfast |-> << "omelette", "boiled_eggs_2", "oats_bowl", "poha", "upma", "idli_sambar",
          "dosa_sambar", "protein_shake", "banana_milk_shake" >>,
      Lunch |-> << "dal_rice", "rajma_rice", "chole_rice", "roti_veg_curry", "roti_dal",
          "egg_curry", "chicken_curry_rice", "biryani_chicken", "paneer_curry_roti",
          "tofu_curry_roti" >>,
      Dinner |-> << "dal_rice", "roti_veg_curry", "roti_dal", "egg_curry", "chicken_curry_rice",
          "paneer_curry_roti", "tofu_curry_roti", "paratha_curd", "thepla_curd" >>,
      Snacks |-> << "dhokla_plate", "khandvi_plate", "handvo_slice", "khakhra_snack", "sev_snack",
          "fafda", "pav_bhaji", "vada_pav", "samosa", "pizza", "burger", "fries", "curd_bowl" >> ]

DishIds == DOMAIN DISH_RECIPES

\* dish names that are no key of DISH_RECIPES
UnknownDishes == { "tea", "water" }

Grams == { 10 * 2^k : k \in 0..MaxDoublings }

\* sum(g for _, g in recipe)
RECURSIVE sum_ref(_, _)
sum_ref(recipe, n) == IF n = 0 THEN 0 ELSE sum_ref(recipe, n - 1) + recipe[n][2]

\* ref_total of macros_for_dish
ref_total_of(recipe) ==
    IF sum_ref(recipe, Len(recipe)) <= 0 THEN 1 ELSE sum_ref(recipe, Len(recipe))

\* the sum, over the first n pairs (ing, g) of the recipe whose ingredient is in ING_DB,
\* of base[field] * g * grams; the loop of macros_for_dish adds
\*   base[field] * (g * grams / ref_total) / 100        for carbs, protein, fat, kcal
\*   base["gerd"] * (g * grams / ref_total) / ref_total for gerd
\* so each local is this sum over a denominator the pairs share
RECURSIVE accumulate(_, _, _, _)
accumulate(recipe, n, field, grams) ==
    IF n = 0 THEN 0
    ELSE accumulate(recipe, n - 1, field, grams) +
         ( IF recipe[n][1] \in DOMAIN ING_DB
           THEN ING_DB[recipe[n][1]][field] * recipe[n][2] * grams
           ELSE 0 )

\* a faulty loop: gerd += base["gerd"] * (g / ref_total), the serving weight left out
macros_locals_gerd_unscaled(dish_name, grams) ==
    LET recipe == DISH_RECIPES[dish_name]
        R == ref_total_of(recipe)
        n == Len(recipe)
    IN  [ ref_total |-> R,
          carbs   |-> Rat(accumulate(recipe, n, "carbs", grams), 100 * R),
          protein |-> Rat(accumulate(recipe, n, "protein", grams), 100 * R),
          fat     |-> Rat(accumulate(recipe, n, "fat", grams), 100 * R),
          kcal    |-> Rat(accumulate(recipe, n, "kcal", grams), 100 * R),
          gerd    |-> Rat(accumulate(recipe, n, "gerd", 1) * R, 100 * R * R) ]

\* the locals of macros_for_dish after its loop for a recipe that is not empty: carbs,
\* protein and fat in tenths of a gram, kcal, and gerd
recipe_locals(recipe, grams) ==
    LET R == ref_total_of(recipe)
        n == Len(recipe)
    IN  [ ref_total |-> R,
          carbs   |-> Rat(accumulate(recipe, n, "carbs", grams), 100 * R),
          protein |-> Rat(accumulate(recipe, n, "protein", grams), 100 * R),
          fat     |-> Rat(accumulate(recipe, n, "fat", grams), 100 * R),
          kcal    |-> Rat(accumulate(recipe, n, "kcal", grams), 100 * R),
          gerd    |-> Rat(accumulate(recipe, n, "gerd", grams), 100 * R * R) ]

\* the locals of macros_for_dish after its loop, for a dish of DISH_RECIPES
macros_locals(dish_name, grams) == recipe_locals(DISH_RECIPES[dish_name], grams)

\* the dict of the return statement: carbs_g, protein_g and fat_g rounded to a tenth
\* (held in tenths), kcal rounded to an integer, gerd clipped to [-0.3, 1.0]; the
\* exception of np.clip leaves the function
macros_return(l) ==
    LET g == np_clip(l.gerd, Rat(0 - 3, 10), Rat(1, 1))
    IN  IF g.exc # "" THEN Raise(g.exc)
        ELSE Return([ carbs_g   |-> round_half_even(l.carbs.num, l.carbs.den),
                      protein_g |-> round_half_even(l.protein.num, l.protein.den),
                      fat_g     |-> round_half_even(l.fat.num, l.fat.den),
                      kcal      |-> round_half_even(l.kcal.num, l.kcal.den),
                      gerd      |-> g.value ])

MacrosZero ==
    [ carbs_g |-> 0, protein_g |-> 0, fat_g |-> 0, kcal |-> 0, gerd |-> Rat(0, 1) ]

\* a faulty lookup: recipe = DISH_RECIPES[dish_name], which raises for a missing key
macros_for_dish_subscript(dish_name, grams) ==
    IF dish_name \notin DOMAIN DISH_RECIPES
    THEN Raise("KeyError")
    ELSE macros_return(macros_locals(dish_name, grams))

\* recipe = DISH_RECIPES.get(dish_name, []); the all-zero dict when it is empty

macros_for_dish(dish_name, grams) ==
    IF dish_name \notin DOMAIN DISH_RECIPES \/ DISH_RECIPES[dish_name] = <<>>
    THEN Return(MacrosZero)
    ELSE macros_return(macros_locals(dish_name, grams))

\* macros_for_dish is called for one dish with two serving weights, in either order
InitMacros ==
    /\ StoreEmpty
    /\ args \in [ dish : DishIds \cup UnknownDishes, g : [ 1..2 -> Grams ] ]
    /\ ret = [ k \in 1..2 |-> NotCalled ]
    /\ frame = [ k \in 1..2 |-> Null ]

CallMacros(k) ==
    /\ ret[k].exc = "not called"
    /\ ret' = [ ret EXCEPT ![k] = macros_for_dish(args.dish, args.g[k]) ]
    /\ frame' = [ frame EXCEPT ![k] =
                    IF args.dish \in DOMAIN DISH_RECIPES /\ DISH_RECIPES[args.dish] # <<>>
                    THEN Some(macros_locals(args.dish, args.g[k])) ELSE Null ]
    /\ UNCHANGED <<store_vars, last_call, args>>

NextMacros == \E k \in 1..2 : CallMacros(k)

SpecMacros == InitMacros /\ [][NextMacros]_vars

\* macros_for_dish from line 403 on, for the recipe DISH_RECIPES.get found
macros_for_recipe(recipe, grams) ==
    IF recipe = <<>> THEN Return(MacrosZero)
    ELSE macros_return(recipe_locals(recipe, grams))

\* recipes the tables of app.py do not hold: an ingredient that is no key of ING_DB
\* (first, last, alone), reference weights that sum to zero or less, and both
RecipeSamples ==
    { << <<"egg_whole", 120>>, <<"saffron", 5>> >>,
      << <<"saffron", 30>>, <<"rice_cooked", 200>>, <<"oil", 5>> >>,
      << <<"saffron", 40>> >>,
      << <<"egg_whole", 0>> >>,
      << <<"egg_whole", 0>>, <<"saffron", 0>> >>,
      << <<"egg_whole", 50>>, <<"oil", 0 - 50>> >>,
      << <<"egg_whole", 20>>, <<"saffron", 0 - 50>> >>,
      << <<"egg_whole", 120>>, <<"oil", 5>> >> }

\* macros_for_dish is called twice for a dish whose recipe is one of RecipeSamples
InitRecipe ==
    /\ StoreEmpty
    /\ args \in [ recipe : RecipeSamples, g : [ 1..2 -> Grams ] ]
    /\ ret = [ k \in 1..2 |-> NotCalled ]
    /\ frame = [ k \in 1..2 |-> Null ]

CallRecipe(k) ==
    /\ ret[k].exc = "not called"
    /\ ret' = [ ret EXCEPT ![k] = macros_for_recipe(args.recipe, args.g[k]) ]
    /\ frame' = [ frame EXCEPT ![k] =
                    IF args.recipe # <<>> THEN Some(recipe_locals(args.recipe, args.g[k]))
                    ELSE Null ]
    /\ UNCHANGED <<store_vars, last_call, args>>

NextRecipe == \E k \in 1..2 : CallRecipe(k)

SpecRecipe == InitRecipe /\ [][NextRecipe]_vars

\* clamp01(x) = float(np.clip(x, 0.0, 1.0))
clamp01(x) == np_clip(x, Rat(0, 1), Rat(1, 1))

abs(x) == IF x < 0 THEN 0 - x ELSE x

min(x, y) == IF x < y THEN x ELSE y

SCORE_DEN == 9600   \* a common denominator of the five sub-scores: 40, 60, 10, 120, 3200

\* the five sub-scores in the order the function computes them; sleep_h is held in
\* tenths of an hour, so 1 - abs(sleep_h - 7.5)/4.0 is (40 - abs(sleep_h - 75)) / 40
wellness_scores(kcal, protein_g, sleep_h, exercise_min, stress_0_10) ==
    << clamp01(Rat(40 - abs(sleep_h - 75), 40)),
       clamp01(Rat(min(exercise_min, 60), 60)),
       clamp01(Rat(10 - stress_0_10, 10)),
       clamp01(Rat(min(protein_g, 120), 120)),
       clamp01(Rat(min(kcal, 3200), 3200)) >>

\* x * SCORE_DEN for a sub-score x
scaled(x) == x.num * (SCORE_DEN \div x.den)

\* round(100*score, 1), in tenths, for score = 0.30*sleep + 0.20*exercise + 0.25*stress
\* + 0.15*protein + 0.10*kcal; the first sub-score that raises leaves the function
wellness_index_generic(kcal, protein_g, sleep_h, exercise_min, stress_0_10) ==
    LET sc == wellness_scores(kcal, protein_g, sleep_h, exercise_min, stress_0_10)
        failed == { i \in 1..5 : sc[i].exc # "" }
    IN  IF failed # {}
        THEN Raise(sc[CHOOSE i \in failed : \A j \in failed : i <= j].exc)
        ELSE Return(round_half_even(300 * scaled(sc[1].value) + 200 * scaled(sc[2].value)
                                    + 250 * scaled(sc[3].value) + 150 * scaled(sc[4].value)
                                    + 100 * scaled(sc[5].value), SCORE_DEN))

\* inputs in and far outside their ranges
KcalSamples == { 0 - 500, 0, 1600, 3200, 9000 }

ProteinSamples == { 0 - 20, 0, 60, 120, 400 }

SleepSamples == { 0 - 30, 0, 35, 75, 115, 240 }

ExerciseSamples == { 0 - 10, 0, 30, 60, 600 }

StressSamples == { 0 - 3, 0, 4, 10, 15 }

InitWellness ==
    /\ StoreEmpty
    /\ args \in [ kcal : KcalSamples, protein_g : ProteinSamples, sleep_h : SleepSamples,
                  exercise_min : ExerciseSamples, stress : StressSamples ]
    /\ ret = NotCalled
    /\ frame = Null

CallWellness ==
    /\ ret.exc = "not called"
    /\ ret' = wellness_index_generic(args.kcal, args.protein_g, args.sleep_h,
                                     args.exercise_min, args.stress)
    /\ UNCHANGED <<store_vars, last_call, args, frame>>

NextWellness == CallWellness

SpecWellness == InitWellness /\ [][NextWellness]_vars

-----------------------------------------------------------------------------
(* The meal logger                                                         *)

\* the three profiles of the app (lines 939, 951, 967)
MealProfiles == { "Sushil", "Chido", "Stupid" }

MealTypes == { "Breakfast", "Lunch", "Dinner", "Snacks" }

\* the options of the Dish selectbox: DISH_CATEGORIES.get(meal_type, all dishes)
dish_options(meal_type) ==
    IF meal_type \in DOMAIN DISH_CATEGORIES
    THEN { DISH_CATEGORIES[meal_type][i] : i \in DOMAIN DISH_CATEGORIES[meal_type] }
    ELSE DOMAIN DISH_RECIPES

\* every dish some category offers
MenuDishes == UNION { dish_options(t) : t \in MealTypes }

\* serving weights the Weight input accepts: its least, default and greatest value
MealGrams == { 10, 300, 2500 }

\* values of the four override inputs, in tenths of a gram and kcal: the defaults,
\* and values entered by the user
OverrideSamples ==
    { [ carbs |-> 0, protein |-> 0, fat |-> 0, kcal |-> 0 ],
      [ carbs |-> 450, protein |-> 200, fat |-> 100, kcal |-> 350 ] }

\* a faulty choice of macros: the override keeps the reflux-load of the dish
meal_macros_keep_gerd(a) ==
    IF a.override
    THEN Return([ carbs_g |-> a.ov.carbs, protein_g |-> a.ov.protein, fat_g |-> a.ov.fat,
                  kcal |-> a.ov.kcal, gerd |-> macros_locals(a.dish, a.grams).gerd ])
    ELSE macros_for_dish(a.dish, a.grams)

\* lines 547-554: the dict `macros` of meal_logger for the widget values a, or the
\* exception that leaves macros_for_dish
meal_macros(a) ==
    LET m == IF a.override
             THEN Return([ carbs_g |-> a.ov.carbs, protein_g |-> a.ov.protein,
                           fat_g |-> a.ov.fat, kcal |-> a.ov.kcal, gerd |-> Rat(0, 1) ])
             ELSE macros_for_dish(a.dish, a.grams)
    IN  IF m.exc # "" THEN m
        ELSE IF ~a.enable_gerd THEN Return([ m.value EXCEPT !.gerd = Rat(0, 1) ])
        ELSE m

\* one run of meal_logger: its parameters and the values of its widgets; the override
\* inputs exist only with enable_t1d
InitMeal ==
    /\ StoreEmpty
    /\ args \in { a \in [ person : MealProfiles, enable_gerd : BOOLEAN,
                          enable_t1d : BOOLEAN, meal_type : MealTypes,
                          dish : MenuDishes, grams : MealGrams,
                          override : BOOLEAN, ov : OverrideSamples ] :
                    /\ a.dish \in dish_options(a.meal_type)
                    /\ ~a.enable_t1d =>
                         /\ ~a.override
                         /\ a.ov = [ carbs |-> 0, protein |-> 0, fat |-> 0, kcal |-> 0 ] }
    /\ ret = NotCalled
    /\ frame = Null

\* meal_logger: macros are chosen (an exception ends the run), and when "Save meal"
\* is pressed add_meal_log inserts the row
meal_logger(save) ==
    /\ ret.exc = "not called"
    /\ ret' = meal_macros(args)
    /\ IF save /\ meal_macros(args).exc = ""
       THEN /\ logs' = logs \cup
                  { [ id |-> sqlite_sequence.logs + 1, person |-> args.person,
                      log_date |-> today, meal_type |-> args.meal_type, meal_time |-> 480,
                      dish |-> args.dish, grams |-> 10 * args.grams,
                      carbs_g |-> meal_macros(args).value.carbs_g,
                      protein_g |-> meal_macros(args).value.protein_g,
                      fat_g |-> meal_macros(args).value.fat_g,
                      kcal |-> meal_macros(args).value.kcal,
                      gerd |-> meal_macros(args).value.gerd, notes |-> "" ] }
            /\ sqlite_sequence' = [ sqlite_sequence EXCEPT !.logs = @ + 1 ]
            /\ last_call' = Call("add_meal_log", args.person, today, "", {})
       ELSE UNCHANGED <<logs, sqlite_sequence, last_call>>
    /\ UNCHANGED <<today, daily, goals, last_upsert, last_goal, args, frame>>

NextMeal == \E save \in BOOLEAN : meal_logger(save)

SpecMeal == InitMeal /\ [][NextMeal]_vars

-----------------------------------------------------------------------------
(* The Goal Planner                                                        *)
(*                                                                         *)
(* Weights are held in tenths of a kilogram (the step of the two weight    *)
(* inputs); a change in kilograms is the rational tenths / 10.             *)

max(x, y) == IF x > y THEN x ELSE y

\* a faulty plan: the whole days to the target date, not floored
plan_no_floor(start_w, target_w, target_d) ==
    LET days_left == target_d - today
        kg_change == target_w - start_w
    IN  IF days_left = 0 THEN Raise("ZeroDivisionError")
        ELSE Return([ days_left |-> days_left,
                      kg_change |-> Rat(kg_change, 10),
                      per_day |-> IF days_left > 0 THEN Rat(kg_change, 10 * days_left)
                                  ELSE Rat(0 - kg_change, 0 - 10 * days_left) ])

\* a faulty plan: the change taken as start minus target
plan_start_minus_target(start_w, target_w, target_d) ==
    LET days_left == max(1, target_d - today)
        kg_change == start_w - target_w
    IN  Return([ days_left |-> days_left,
                 kg_change |-> Rat(kg_change, 10),
                 per_day |-> Rat(kg_change, 10 * days_left) ])

\* days_left = max(1, (target_d - date.today()).days); kg_change = target_w - start_w;
\* per_day = kg_change / days_left, which raises ZeroDivisionError for a divisor 0
plan(start_w, target_w, target_d) ==
    LET days_left == max(1, target_d - today)
        kg_change == target_w - start_w
    IN  IF days_left = 0 THEN Raise("ZeroDivisionError")
        ELSE Return([ days_left |-> days_left,
                      kg_change |-> Rat(kg_change, 10),
                      per_day |-> Rat(kg_change, 10 * days_left) ])

\* app_utils/goals.py: 0.0 for days_left <= 0, else (target_kg - current_kg) / days_left
daily_weight_change(target_kg, current_kg, days_left) ==
    IF days_left <= 0 THEN Return(Rat(0, 1))
    ELSE Return(Rat(target_kg - current_kg, 10 * days_left))

\* weights the inputs accept (25.0 to 200.0 kg), in tenths
WeightSamples == { 250, 650, 700, 701, 2000 }

\* the target date, in days from today: long past, yesterday, today, and ahead
DayOffsets == { 0 - 400, 0 - 1, 0, 1, 10, 365 }

\* one run of goal_panel with the values of its widgets, and one call of the helper
\* of goals.py with the same weights and the raw days to the target date
InitGoal ==
    /\ StoreEmpty
    /\ args \in [ person : Persons, goal_type : GoalTypes, start_w : WeightSamples,
                  target_w : WeightSamples, days : DayOffsets ]
    /\ ret = [ plan |-> NotCalled, helper |-> NotCalled ]
    /\ frame = Null

\* goal_panel: when "Save goal" is pressed the goal is saved by set_goal; then the
\* plan summary is computed from the widget values
goal_panel(save) ==
    /\ ret.plan.exc = "not called"
    /\ LET g == [ start_weight |-> args.start_w, target_weight |-> args.target_w,
                  target_date |-> today + args.days,
                  kcal_adjust |-> IF args.goal_type = "gain" THEN 3000 ELSE 0 - 3000,
                  protein_target |-> 1100 ]
       IN  IF save
           THEN /\ goals' = { r \in goals : ~(r.person = args.person
                                              /\ r.goal_type = args.goal_type) }
                              \cup { goal_row(args.person, args.goal_type, g) }
                /\ last_goal' = Saved(last_goal, args.person, "goal_type",
                                      args.goal_type, "goal", g)
           ELSE UNCHANGED <<goals, last_goal>>
    /\ ret' = [ ret EXCEPT !.plan = plan(args.start_w, args.target_w, today + args.days) ]
    /\ last_call' = Call("goal_panel", args.person, args.goal_type,
                         IF save THEN "saved" ELSE "", {})
    /\ UNCHANGED <<today, logs, daily, sqlite_sequence, last_upsert, args, frame>>

CallDailyWeightChange ==
    /\ ret.helper.exc = "not called"
    /\ ret' = [ ret EXCEPT !.helper =
                  daily_weight_change(args.target_w, args.start_w, args.days) ]
    /\ UNCHANGED <<store_vars, last_call, args, frame>>

NextGoal ==
    \/ \E save \in BOOLEAN : goal_panel(save)
    \/ CallDailyWeightChange

SpecGoal == InitGoal /\ [][NextGoal]_vars

-----------------------------------------------------------------------------
(* The weekly summary (features/insights.py)                               *)
(*                                                                         *)
(* A DataFrame is its set of column labels and its sequence of rows; a     *)
(* cell is Null (None, NaN, NaT) or Some(value).  A float is an exact      *)
(* rational or NaN.                                                        *)

MaxRecords == 8     \* rows of the frame given to week_summary

WINDOW == 7

Float(n, d) == [ nan |-> FALSE, num |-> n, den |-> d ]

NaN == [ nan |-> TRUE, num |-> 0, den |-> 1 ]

\* pd.to_datetime(x, errors="coerce") of one cell: the date an ISO text names, NaT for
\* None and for a text that names no date
to_datetime(x) == IF x.kind = "iso" THEN Some(x.day) ELSE Null

\* d.dropna(subset=["date"])
dropna_date(rows) == SelectSeq(rows, LAMBDA r : r.date # Null)

\* a faulty sort: the rows stay in the order of the input
sort_values_none(rows) == rows

\* d.sort_values("date") for rows with pairwise different dates, none of them NaT
RECURSIVE sort_values(_)
sort_values(rows) ==
    IF rows = <<>> THEN <<>>
    ELSE LET first == CHOOSE i \in DOMAIN rows :
                          \A j \in DOMAIN rows : rows[i].date[1] <= rows[j].date[1]
         IN  <<rows[first]>> \o
             sort_values(SelectSeq(rows, LAMBDA r : r.index # rows[first].index))

\* d.tail(k)
tail(rows, k) ==
    IF Len(rows) <= k THEN rows ELSE SubSeq(rows, Len(rows) - k + 1, Len(rows))

\* last7 of week_summary for a frame that is not empty
last7_of(df) ==
    tail(sort_values(dropna_date([ i \in DOMAIN df.rows |->
             [ df.rows[i] EXCEPT !.date = to_datetime(df.rows[i].date) ] ])), WINDOW)

\* rows[col].notna().sum()
notna_sum(rows, col) == Cardinality({ i \in DOMAIN rows : rows[i][col] # Null })

RECURSIVE sum_col(_, _, _)
sum_col(rows, col, k) ==
    IF k = 0 THEN 0
    ELSE sum_col(rows, col, k - 1) + (IF rows[k][col] # Null THEN rows[k][col][1] ELSE 0)

\* float(rows[col].mean()): the mean of the values that are not null, NaN when there
\* is none; the values are tenths
mean(rows, col) ==
    IF notna_sum(rows, col) = 0 THEN NaN
    ELSE Float(sum_col(rows, col, Len(rows)), 10 * notna_sum(rows, col))

\* float(last7[col].iloc[-1] - last7[col].iloc[0]): NaN when either cell is null
last_minus_first(rows, col) ==
    IF rows[Len(rows)][col] = Null \/ rows[1][col] = Null THEN NaN
    ELSE Float(rows[Len(rows)][col][1] - rows[1][col][1], 10)

\* a faulty weight_change: computed from one weight observation on
weight_change_one(columns, last7) ==
    IF "weight" \in columns /\ notna_sum(last7, "weight") >= 1
    THEN Some(last_minus_first(last7, "weight")) ELSE Null

\* out["weight_change"]
weight_change(columns, last7) ==
    IF "weight" \in columns /\ notna_sum(last7, "weight") >= 2
    THEN Some(last_minus_first(last7, "weight")) ELSE Null

\* out["avg_wellness"], out["avg_protein"]
avg(columns, last7, col) ==
    IF col \in columns THEN Some(mean(last7, col)) ELSE Null

\* week_summary(df); df is Null for None
week_summary(df) ==
    IF df = Null THEN Return(Null)
    ELSE IF df[1].rows = <<>> THEN Return(Null)
    ELSE LET last7 == last7_of(df[1])
         IN  IF last7 = <<>> THEN Return(Null)
             ELSE Return(Some([ avg_wellness |-> avg(df[1].columns, last7, "wellness"),
                                avg_protein |-> avg(df[1].columns, last7, "protein"),
                                weight_change |-> weight_change(df[1].columns, last7) ]))

\* sets of row numbers: the rows that carry a value in a column
IndexSets == { {}, {1}, {1, 2}, {1, 3}, {2, 3, 4},
               { i \in 1..MaxRecords : i % 2 = 0 }, 1..MaxRecords }

\* the rows whose date cannot be parsed
BadDateSets == { {}, {1}, {2, 5}, 1..MaxRecords }

\* an optional column: missing (Null), or present with values in the rows of a set
WellnessColumns == { Null } \cup { Some(S) : S \in { {}, {1}, 1..MaxRecords } }

WeightColumns == { Null } \cup { Some(S) : S \in IndexSets }

Cell(column, i, v) == IF column # Null /\ i \in column[1] THEN Some(v) ELSE Null

\* a frame of n per-day records, one per day up to today, oldest first ("asc") or
\* latest first ("desc"); a date that cannot be parsed is a text or None
DataFrame(n, order, bad, wellness, protein, weight) ==
    [ columns |-> {"date"} \cup (IF wellness # Null THEN {"wellness"} ELSE {})
                           \cup (IF protein # Null THEN {"protein"} ELSE {})
                           \cup (IF weight # Null THEN {"weight"} ELSE {}),
      rows |-> [ i \in 1..n |->
                 [ index |-> i - 1,
                   date |-> IF i \notin bad
                            THEN [ kind |-> "iso",
                                   day |-> IF order = "asc" THEN today - (n - i)
                                           ELSE today - (i - 1) ]
                            ELSE [ kind |-> IF i % 2 = 1 THEN "text" ELSE "None",
                                   day |-> 0 ],
                   wellness |-> Cell(wellness, i, 400 + 35 * i),
                   protein |-> Cell(protein, i, 600 + 70 * i),
                   weight |-> Cell(weight, i, 700 + i * i) ] ] ]

InitSummary ==
    /\ StoreEmpty
    /\ args \in { Null } \cup
                { Some(DataFrame(n, order, bad, wellness, protein, weight)) :
                    n \in 0..MaxRecords, order \in {"asc", "desc"}, bad \in BadDateSets,
                    wellness \in WellnessColumns, protein \in WellnessColumns,
                    weight \in WeightColumns }
    /\ ret = NotCalled
    /\ frame = Null

\* one call of week_summary; frame keeps its local last7 when the call came to it
CallWeekSummary ==
    /\ ret.exc = "not called"
    /\ ret' = week_summary(args)
    /\ frame' = IF args = Null THEN Null
                ELSE IF args[1].rows = <<>> THEN Null
                ELSE Some(last7_of(args[1]))
    /\ UNCHANGED <<store_vars, last_call, args>>

NextSummary == CallWeekSummary

SpecSummary == InitSummary /\ [][NextSummary]_vars

-----------------------------------------------------------------------------
(* Claims about the record store (under Spec)                              *)

\* C1: after any sequence of upsert_daily, add_meal_log and set_goal calls the daily
\* table holds at most one row for each (person, date) pair.
C1_OneDailyRowPerPersonDate ==
    \A r1, r2 \in daily :
        (r1.person = r2.person /\ r1.log_date = r2.log_date) => r1 = r2

\* an upsert_daily has just overwritten an existing pair while another pair has a row
C1_Witness ==
    /\ last_call.op = "upsert_daily"
    /\ last_call.branch = "UPDATE"
    /\ Cardinality(daily) >= 2

\* C2: the row of (person, date) holds exactly the values of the most recent
\* upsert_daily for the pair: each column the call supplied has the supplied value,
\* every other column is NULL, and only pairs that were saved have a row.
C2_LatestUpsertOverwritesWholeRow ==
    /\ \A h \in last_upsert :
         \E r \in daily :
           /\ r.person = h.person /\ r.log_date = h.log_date
           /\ \A c \in cols :
                r.data[c] = IF c \in DOMAIN h.kwargs THEN h.kwargs[c] ELSE Null
    /\ \A r \in daily :
         \E h \in last_upsert : h.person = r.person /\ h.log_date = r.log_date

\* an upsert_daily has just overwritten a row and set to NULL columns that held a
\* value from the earlier save
C2_Witness ==
    /\ last_call.op = "upsert_daily"
    /\ last_call.branch = "UPDATE"
    /\ "sleep_hours" \in last_call.nulled
    /\ \E r \in daily : /\ r.person = last_call.person /\ r.log_date = last_call.key
                        /\ r.data["weight_kg"] = Some(551)
                        /\ r.data["sleep_hours"] = Null

\* what get_goal is to return for a key, from the history of set_goal calls
C3_Expected(person, goal_type) ==
    IF \E h \in last_goal : h.person = person /\ h.goal_type = goal_type
    THEN { Some([ start_weight |-> h.goal.start_weight,
                  target_weight |-> h.goal.target_weight,
                  target_date |-> h.goal.target_date,
                  kcal_adjust |-> h.goal.kcal_adjust,
                  protein_target |-> h.goal.protein_target ]) :
             h \in { x \in last_goal : x.person = person /\ x.goal_type = goal_type } }
    ELSE { Null }

C3_Five(d) ==
    IF d = Null THEN Null
    ELSE Some([ start_weight |-> d[1].start_weight, target_weight |-> d[1].target_weight,
                target_date |-> d[1].target_date, kcal_adjust |-> d[1].kcal_adjust,
                protein_target |-> d[1].protein_target ])

\* C3: the goals table holds at most one row per (person, goal_type), and get_goal
\* returns the start weight, target weight, target date, calorie adjustment and protein
\* target of the most recent set_goal for the key, or None when none was saved.
C3_GoalUpsertAndGet ==
    /\ \A r1, r2 \in goals :
         (r1.person = r2.person /\ r1.goal_type = r2.goal_type) => r1 = r2
    /\ \A p \in Persons, t \in GoalTypes :
         { C3_Five(d) : d \in goal_dict(p, t) } = C3_Expected(p, t)
    /\ last_call.op = "get_goal" =>
         C3_Five(ret) \in C3_Expected(last_call.person, last_call.key)

\* get_goal has just returned the goal of a key that was saved more than once
C3_Witness ==
    /\ last_call.op = "get_goal"
    /\ ret # Null
    /\ \E h \in last_goal : /\ h.person = last_call.person
                            /\ h.goal_type = last_call.key
                            /\ h.resaved

\* C4: meal rows are append-only.  No step changes or removes a meal row; only
\* add_meal_log adds one, exactly one per call, under a key no existing row has; keys
\* stay unique.
C4_MealsAppendOnly ==
    /\ [](\A r1, r2 \in logs : r1.id = r2.id => r1 = r2)
    /\ [][ /\ logs \subseteq logs'
           /\ logs' # logs => last_call'.op = "add_meal_log"
           /\ last_call'.op = "add_meal_log" =>
                \E r \in logs' : /\ r \notin logs
                                 /\ logs' = logs \cup { r }
                                 /\ \A o \in logs : o.id # r.id ]_vars

\* add_meal_log has just added a second meal of the same person and date
C4_Witness ==
    /\ last_call.op = "add_meal_log"
    /\ \E r1, r2 \in logs : /\ r1.id # r2.id
                            /\ r1.person = r2.person
                            /\ r1.log_date = r2.log_date

\* C5: load_logs(p) and load_daily(p) return rows of person p only, get_goal(p, t)
\* returns what was last saved for p, and a write for another person q leaves every
\* query of p as it was.
C5_ProfilesIsolated ==
    /\ [](last_call.op \in { "load_logs", "load_daily" } =>
            \A i \in DOMAIN ret : ret[i].person = last_call.person)
    /\ [](last_call.op = "get_goal" /\ ret # Null =>
            \E h \in last_goal : /\ h.person = last_call.person
                                 /\ h.goal_type = last_call.key
                                 /\ ret[1].start_weight = h.goal.start_weight
                                 /\ ret[1].target_weight = h.goal.target_weight)
    /\ [][ last_call'.op \in { "add_meal_log", "upsert_daily", "set_goal" } =>
             \A p \in Persons \ { last_call'.person } :
                /\ load_logs_df(p)' = load_logs_df(p)
                /\ load_daily_df(p)' = load_daily_df(p)
                /\ \A t \in GoalTypes : goal_dict(p, t)' = goal_dict(p, t) ]_vars

\* load_logs has just returned rows of its person while the table also holds a meal
\* of the other person
C5_Witness ==
    /\ last_call.op = "load_logs"
    /\ ret # <<>>
    /\ \E r \in logs : r.person # last_call.person

-----------------------------------------------------------------------------
(* Claims about the Macro Calculator (under SpecMacros)                    *)

KnownDish == args.dish \in DOMAIN DISH_RECIPES /\ DISH_RECIPES[args.dish] # <<>>

BothCalled == ret[1].exc # "not called" /\ ret[2].exc # "not called"

C7_NutrientsScaleLinearly ==
    (BothCalled /\ KnownDish /\ args.g[2] = 2 * args.g[1]) =>
        /\ ret[1].exc = ""
        /\ ret[2].exc = ""
        /\ \A f \in { "carbs_g", "protein_g", "fat_g", "kcal" } :
             abs(ret[2].value[f] - 2 * ret[1].value[f]) <= 1

\* C8: for a dish that is no key of DISH_RECIPES, macros_for_dish returns carbs,
\* protein, fat, kcal and reflux-load all zero, whatever the serving weight, and does
\* not raise.
C8_UnknownDishAllZero ==
    \A k \in 1..2 :
        (ret[k].exc # "not called" /\ args.dish \notin DOMAIN DISH_RECIPES) =>
            /\ ret[k].exc = ""
            /\ ret[k].value.carbs_g = 0
            /\ ret[k].value.protein_g = 0
            /\ ret[k].value.fat_g = 0
            /\ ret[k].value.kcal = 0
            /\ ret[k].value.gerd.num = 0

\* an unknown dish has been computed for two different serving weights
C8_Witness ==
    /\ BothCalled
    /\ args.dish \in UnknownDishes
    /\ args.g[1] # args.g[2]
    /\ ret[1].exc = ""

\* C9: every call of macros_for_dish returns a reflux-load in [-0.3, 1.0].
C9_RefluxLoadInRange ==
    \A k \in 1..2 :
        ret[k].exc # "not called" =>
            /\ ret[k].exc = ""
            /\ ~Less(ret[k].value.gerd, Rat(0 - 3, 10))
            /\ ~Less(Rat(1, 1), ret[k].value.gerd)

-----------------------------------------------------------------------------
(* Claims about the Wellness Scorer (under SpecWellness)                   *)

\* C10: for all numeric inputs, negative and far out of range included,
\* wellness_index_generic returns a score in [0, 100] (0 to 1000 tenths).
C10_WellnessBounded ==
    ret.exc # "not called" =>
        /\ ret.exc = ""
        /\ 0 <= ret.value
        /\ ret.value <= 1000

\* C11: when all five sub-scores saturate (sleep 7.5 h, exercise >= 60 min, stress 0,
\* protein >= 120 g, kcal >= 3200) wellness_index_generic returns exactly 100.0
\* (1000 tenths).
C11_SaturatedIsHundred ==
    ( /\ ret.exc # "not called"
      /\ args.sleep_h = 75
      /\ args.exercise_min >= 60
      /\ args.stress = 0
      /\ args.protein_g >= 120
      /\ args.kcal >= 3200 ) =>
        /\ ret.exc = ""
        /\ ret.value = 1000

\* C12: for the worst-case inputs (kcal 0, protein 0, exercise 0, stress 10, sleep at
\* distance 4 h or more from 7.5 h) wellness_index_generic returns 0.0.
C12_WorstCaseIsZero ==
    ( /\ ret.exc # "not called"
      /\ args.kcal = 0
      /\ args.protein_g = 0
      /\ args.exercise_min = 0
      /\ args.stress = 10
      /\ abs(args.sleep_h - 75) >= 40 ) =>
        /\ ret.exc = ""
        /\ ret.value = 0

-----------------------------------------------------------------------------
(* Claims about the Goal Planner (under SpecGoal)                          *)

\* x = y for two rationals
SameRat(x, y) == x.num * y.den = y.num * x.den

\* C13: days_left is never zero or negative: for every target date it is at least 1,
\* it is 1 whenever the target date is today or earlier, and the per-day change is
\* always defined (the division never fails).
C13_DaysLeftAtLeastOne ==
    ret.plan.exc # "not called" =>
        /\ ret.plan.exc = ""
        /\ ret.plan.value.days_left >= 1
        /\ args.days <= 0 => ret.plan.value.days_left = 1
        /\ ret.plan.value.per_day.den > 0

\* the plan has been computed for a target date in the past, with one day left
C13_Witness ==
    /\ ret.plan.exc = ""
    /\ args.days < 0
    /\ ret.plan.value.days_left = 1
    /\ ret.plan.value.per_day.num # 0

C15_HelperFloorsDeadline ==
    ret.helper.exc # "not called" =>
        /\ ret.helper.exc = ""
        /\ SameRat(ret.helper.value,
                   Rat(args.target_w - args.start_w, 10 * max(1, args.days)))
        /\ ret.plan.exc = "" => SameRat(ret.helper.value, ret.plan.value.per_day)

-----------------------------------------------------------------------------
(* Claims about the weekly summary (under SpecSummary)                     *)

\* the records given to week_summary, in the order given
InputRows == IF args = Null THEN <<>> ELSE args[1].rows

\* the records whose date can be parsed
ValidRows == { i \in DOMAIN InputRows : InputRows[i].date.kind = "iso" }

\* the trailing window: the valid records with fewer than 7 valid records after them
Latest7 ==
    { i \in ValidRows :
        Cardinality({ j \in ValidRows :
                        InputRows[j].date.day > InputRows[i].date.day }) < 7 }

\* the records of the window that carry a value in a field
WindowWith(col) == { i \in Latest7 : InputRows[i][col] # Null }

Summarised == ret.exc = "" /\ ret.value # Null

\* C16: week_summary uses the 7 chronologically latest records with a parseable date,
\* all of them when there are fewer than 7, in chronological order; it returns null
\* exactly when no record has a parseable date (null input, empty input, or every
\* date unparseable).
C16_WindowIsLatestSeven ==
    ret.exc # "not called" =>
        /\ ret.exc = ""
        /\ (ret.value = Null) <=> (ValidRows = {})
        /\ ValidRows # {} =>
             /\ frame # Null
             /\ { frame[1][k].index + 1 : k \in DOMAIN frame[1] } = Latest7
             /\ Len(frame[1]) = Cardinality(Latest7)
             /\ Len(frame[1]) = IF Cardinality(ValidRows) < 7
                                THEN Cardinality(ValidRows) ELSE 7
             /\ \A k \in 1..(Len(frame[1]) - 1) :
                  frame[1][k].date[1] < frame[1][k + 1].date[1]

\* a summary has been returned for more than 7 valid records given latest first
C16_Witness ==
    /\ Summarised
    /\ Cardinality(ValidRows) > 7
    /\ InputRows[1].date.day > InputRows[2].date.day
    /\ Len(frame[1]) = 7
    /\ frame[1][7].index = 0

\* C17: whenever the window holds at least 2 non-null weights, weight_change is a
\* number (not null, not NaN): the latest weight observation of the window minus the
\* earliest one, also when the first or the last record of the window has no weight.
C17_WeightChangeLatestMinusEarliest ==
    (Summarised /\ Cardinality(WindowWith("weight")) >= 2) =>
        LET W == WindowWith("weight")
            latest == CHOOSE i \in W :
                        \A j \in W : InputRows[j].date.day <= InputRows[i].date.day
            earliest == CHOOSE i \in W :
                          \A j \in W : InputRows[i].date.day <= InputRows[j].date.day
            out == ret.value[1].weight_change
        IN  /\ out # Null
            /\ ~out[1].nan
            /\ out[1].num * 10
                 = (InputRows[latest].weight[1] - InputRows[earliest].weight[1])
                   * out[1].den

\* C18: weight_change is null whenever the window holds fewer than 2 non-null
\* weights, also when older records outside the window carry weights.
C18_WeightChangeNullBelowTwo ==
    (Summarised /\ Cardinality(WindowWith("weight")) < 2) =>
        ret.value[1].weight_change = Null

\* a summary has been returned whose window holds one weight while an older record
\* outside the window carries another
C18_Witness ==
    /\ Summarised
    /\ Cardinality(WindowWith("weight")) = 1
    /\ \E i \in ValidRows \ Latest7 : InputRows[i].weight # Null
    /\ ret.value[1].weight_change = Null

RECURSIVE C19_Sum(_, _)
C19_Sum(S, col) ==
    IF S = {} THEN 0
    ELSE LET i == CHOOSE x \in S : TRUE
         IN  InputRows[i][col][1] + C19_Sum(S \ {i}, col)

\* C19: avg_wellness and avg_protein are each the arithmetic mean over the records of
\* the window that carry the field, and null (not NaN, not another number) when no
\* record of the window carries it, the column missing or present with every value
\* null.
C19_AveragesMeanOrNull ==
    Summarised =>
        \A col \in { "wellness", "protein" } :
            LET P == WindowWith(col)
                out == IF col = "wellness" THEN ret.value[1].avg_wellness
                       ELSE ret.value[1].avg_protein
            IN  IF P = {} THEN out = Null
                ELSE /\ out # Null
                     /\ ~out[1].nan
                     /\ out[1].num * 10 * Cardinality(P) = C19_Sum(P, col) * out[1].den

-----------------------------------------------------------------------------
(* Claims about the static tables (under SpecMacros)                       *)

\* C20: every ingredient a recipe of DISH_RECIPES names is a key of ING_DB, and the
\* reference weights of every recipe sum to more than zero; so a call of
\* macros_for_dish for a dish of the table skips no ingredient and divides by the
\* sum of the reference weights, never by the fallback 1.
C20_RecipesReferToIngredients ==
    /\ \A d \in DOMAIN DISH_RECIPES :
         /\ \A n \in DOMAIN DISH_RECIPES[d] : DISH_RECIPES[d][n][1] \in DOMAIN ING_DB
         /\ sum_ref(DISH_RECIPES[d], Len(DISH_RECIPES[d])) > 0
    /\ \A k \in 1..2 :
         (ret[k].exc # "not called" /\ args.dish \in DOMAIN DISH_RECIPES) =>
             /\ frame[k] # Null
             /\ frame[k][1].ref_total
                  = sum_ref(DISH_RECIPES[args.dish], Len(DISH_RECIPES[args.dish]))

\* a dish of three or more ingredients has been computed with the sum of its
\* reference weights as ref_total
C20_Witness ==
    /\ ret[1].exc # "not called"
    /\ args.dish \in DOMAIN DISH_RECIPES
    /\ Len(DISH_RECIPES[args.dish]) >= 3
    /\ frame[1] # Null
    /\ frame[1][1].ref_total > 1
    /\ \A n \in DOMAIN DISH_RECIPES[args.dish] :
         DISH_RECIPES[args.dish][n][1] \in DOMAIN ING_DB

-----------------------------------------------------------------------------
(* Claims about recipes the tables do not hold (under SpecRecipe)          *)

\* the sum of the reference weights of the first n pairs of the recipe of the call
C21_Total(n) == sum_ref(args.recipe, n)

\* the sum over the pairs of the recipe whose ingredient is a key of ING_DB of
\* nutrient per 100 g * reference weight * serving weight
RECURSIVE C21_Known(_, _, _)
C21_Known(n, field, grams) ==
    IF n = 0 THEN 0
    ELSE C21_Known(n - 1, field, grams) +
         ( IF args.recipe[n][1] \in DOMAIN ING_DB
           THEN ING_DB[args.recipe[n][1]][field] * args.recipe[n][2] * grams
           ELSE 0 )

-----------------------------------------------------------------------------
(* Claims about two upsert_daily calls at once (under SpecRace)            *)

\* C22: when two upsert_daily calls for the same (person, date) interleave their
\* SELECT and their write, both calls complete without error and the table ends with
\* exactly one row of the pair, holding the values of one of the two calls.
C22_InterleavedUpsertsBothComplete ==
    (\A c \in Calls : frame[c].pc = "DONE") =>
        /\ \A c \in Calls : frame[c].exc = ""
        /\ Cardinality(daily_select(args.person, args.log_date)) = 1
        /\ \A r \in daily_select(args.person, args.log_date) :
             \E c \in Calls : r.data = RaceData(c)

-----------------------------------------------------------------------------
(* Claims about the meal logger (under SpecMeal)                           *)

\* C23: every meal row saved by meal_logger with enable_gerd false, and every row
\* saved with the manual override, has reflux-load exactly 0, whatever the dish and
\* the serving weight; with the override the saved carbs, protein, fat and kcal are
\* the values the user entered.
C23_SavedRefluxLoadZero ==
    \A r \in logs :
        /\ (~args.enable_gerd \/ args.override) => r.gerd.num = 0
        /\ args.override =>
             /\ r.carbs_g = args.ov.carbs
             /\ r.protein_g = args.ov.protein
             /\ r.fat_g = args.ov.fat
             /\ r.kcal = args.ov.kcal

\* a meal of a dish with a reflux-load has been saved with the override for the
\* profile "Stupid" as the app runs it (reflux tracking off, override inputs on): the
\* row holds the entered values and load 0
C23_Witness ==
    /\ args.override
    /\ args.person = "Stupid"
    /\ ~args.enable_gerd
    /\ args.enable_t1d
    /\ macros_locals(args.dish, args.grams).gerd.num > 0
    /\ \E r \in logs : /\ r.dish = args.dish
                       /\ r.carbs_g = 450
                       /\ r.kcal = 350
                       /\ r.gerd.num = 0

\* C24: every dish offered in a meal category of DISH_CATEGORIES is a key of
\* DISH_RECIPES with a recipe, so the dish meal_logger passes to macros_for_dish never
\* takes the unknown-dish branch that returns all zeros.
C24_MenuDishesHaveRecipes ==
    /\ \A t \in DOMAIN DISH_CATEGORIES : \A i \in DOMAIN DISH_CATEGORIES[t] :
         /\ DISH_CATEGORIES[t][i] \in DOMAIN DISH_RECIPES
         /\ DISH_RECIPES[DISH_CATEGORIES[t][i]] # <<>>
    /\ args.dish \in DOMAIN DISH_RECIPES
    /\ DISH_RECIPES[args.dish] # <<>>
    /\ (ret.exc # "not called" /\ ~args.override) =>
         macros_for_dish(args.dish, args.grams)
           = macros_return(macros_locals(args.dish, args.grams))

\* meal_logger has run without the override for a dish of the Snacks menu
C24_Witness ==
    /\ ret.exc # "not called"
    /\ ~args.override
    /\ args.meal_type = "Snacks"
    /\ args.dish = "fries"

====
